---- MODULE Spec2Model ----
(***************************************************************************)
(* A model of the remote MCP function app: the weather tool (getWeather,   *)
(* WeatherService and its helpers) and the snippet tools (getSnippet,      *)
(* saveSnippet).                                                           *)
(*                                                                         *)
(* JavaScript values are records [t, n, s]: t is the typeof tag, n the     *)
(* number (fixed point, in hundredths) and s the string, a sequence of     *)
(* one-character strings so that trim, join and slice work on characters.  *)
(* Fixed message literals of the code are kept as TLA+ strings.            *)
(***************************************************************************)
EXTENDS Integers, Sequences, FiniteSets, TLC

(***************************************************************************)
(* Bounds of the model.                                                    *)
(***************************************************************************)
NumInvocations == 2
MaxLen == 4
MaxCode == 101
MaxDeg == 365
MaxTemp == 45

Invocations == 1..NumInvocations

(***************************************************************************)
(* JavaScript values.                                                      *)
(***************************************************************************)
\* numbers are fixed point: an integer n stands for n / Scale
Scale == 10 * 10

Undefined == [t |-> "undefined", n |-> 0, s |-> <<>>]
Str(s) == [t |-> "string", n |-> 0, s |-> s]
Num(n) == [t |-> "number", n |-> n, s |-> <<>>]
\* {"toString": 1} : an object with an own, non-callable toString, so that
\* converting it to a string throws a TypeError
OpaqueObject == [t |-> "object", n |-> 1, s |-> <<>>]

IsString(v) == v.t = "string"
IsNumber(v) == v.t = "number"

\* ToBoolean
Truthy(v) ==
  CASE v.t = "string" -> v.s # <<>>
    [] v.t = "number" -> v.n # 0
    [] v.t = "object" -> TRUE
    [] OTHER -> FALSE

\* a || b
Or(a, b) == IF Truthy(a) THEN a ELSE b

\* a ?? b
Coalesce(a, b) == IF a.t = "undefined" THEN b ELSE a

\* `${v}` throws for an object that has no usable toString / valueOf
ToStringThrows(v) == v.t = "object" /\ v.n = 1

WhiteSpace == {" ", "\t"}
Chars == WhiteSpace \cup {"a"}

RECURSIVE trimStart(_)
trimStart(s) ==
  IF s # <<>> /\ Head(s) \in WhiteSpace THEN trimStart(Tail(s)) ELSE s

RECURSIVE trimEnd(_)
trimEnd(s) ==
  IF s # <<>> /\ s[Len(s)] \in WhiteSpace
    THEN trimEnd(SubSeq(s, 1, Len(s) - 1))
    ELSE s

\* String.prototype.trim
trim(s) == trimEnd(trimStart(s))

\* Math.round: the nearest integer, a tie going up. num / den is the value.
MathRound(num, den) == (2 * num + den) \div (2 * den)

\* the % of JavaScript: the remainder takes the sign of the dividend
JsRem(a, b) == IF a >= 0 THEN a % b ELSE -((-a) % b)

(***************************************************************************)
(* weatherService.ts                                                       *)
(***************************************************************************)
SeattleWA == <<"S", "e", "a", "t", "t", "l", "e", ",", " ", "W", "A">>

\* location.trim() on a truthy value that is no string: TypeError
normalizeLocationThrows(location) == Truthy(location) /\ ~IsString(location)

normalizeLocation_NoDefault(location) ==
  IF ~Truthy(location) THEN SeattleWA ELSE trim(location.s)

normalizeLocation(location) ==
  IF ~Truthy(location) \/ trim(location.s) = <<>>
    THEN SeattleWA
    ELSE trim(location.s)

Null == [t |-> "null", n |-> 0, s |-> <<>>]

NoCoords == [found |-> FALSE, lat |-> 0, lon |-> 0, canonical |-> <<>>]

\* the callback of filter: s && s.trim() !== ""
keepPart(s) == Truthy(s) /\ trim(s.s) # <<>>

\* Array.prototype.join(", ") on an array of strings
RECURSIVE joinComma(_)
joinComma(parts) ==
  IF parts = <<>> THEN <<>>
  ELSE IF Len(parts) = 1 THEN parts[1].s
  ELSE parts[1].s \o <<",", " ">> \o joinComma(Tail(parts))

\* [name, admin1, country] of the first match
matchParts(match, location) ==
  << Or(match.name, Str(location)), Or(match.admin1, Null), Or(match.country, Null) >>

\* what makes the body of geocodeAsync throw into its catch: fetch rejecting,
\* response.json() rejecting, or trim called on a part that is truthy and no
\* string
geocodeFaults(location, response) ==
  \/ response.kind # "json"
  \/ /\ response.hasResults
     /\ response.results # <<>>
     /\ \E k \in 1..3 :
          LET part == matchParts(response.results[1], location)[k]
          IN  Truthy(part) /\ ~IsString(part)

geocodeAsync(location, response) ==
  IF geocodeFaults(location, response) THEN NoCoords
  ELSE IF ~response.hasResults \/ response.results = <<>> THEN NoCoords
  ELSE LET match == response.results[1]
           canonical == joinComma(SelectSeq(matchParts(match, location), keepPart))
       IN  [found |-> TRUE, lat |-> match.latitude, lon |-> match.longitude,
            canonical |-> IF canonical # <<>> THEN canonical ELSE location]

NoProps ==
  [temperature_2m |-> Undefined, relative_humidity_2m |-> Undefined,
   wind_speed_10m |-> Undefined, wind_direction_10m |-> Undefined,
   weather_code |-> Undefined, time |-> Undefined]

NoObservation == [found |-> FALSE, props |-> NoProps]

getLatestObservationAsync_KeepsEmpty(lat, lon, response) ==
  [found |-> TRUE, props |-> response.current]

getLatestObservationAsync(lat, lon, response) ==
  IF response.kind # "json" THEN NoObservation
  ELSE IF response.hasCurrent THEN [found |-> TRUE, props |-> response.current]
  ELSE NoObservation

mapWeatherCode(code) ==
  CASE code = 0 * Scale -> "Clear sky"
    [] code = 1 * Scale -> "Mainly clear"
    [] code = 2 * Scale -> "Partly cloudy"
    [] code = 3 * Scale -> "Overcast"
    [] code = 45 * Scale \/ code = 48 * Scale -> "Fog"
    [] code = 51 * Scale \/ code = 53 * Scale \/ code = 55 * Scale -> "Drizzle"
    [] code = 56 * Scale \/ code = 57 * Scale -> "Freezing drizzle"
    [] code = 61 * Scale \/ code = 63 * Scale \/ code = 65 * Scale -> "Rain"
    [] code = 66 * Scale \/ code = 67 * Scale -> "Freezing rain"
    [] code = 71 * Scale \/ code = 73 * Scale \/ code = 75 * Scale -> "Snowfall"
    [] code = 77 * Scale -> "Snow grains"
    [] code = 80 * Scale \/ code = 81 * Scale \/ code = 82 * Scale -> "Rain showers"
    [] code = 85 * Scale \/ code = 86 * Scale -> "Snow showers"
    [] code = 95 * Scale -> "Thunderstorm"
    [] code = 96 * Scale \/ code = 99 * Scale -> "Thunderstorm with hail"
    [] OTHER -> "Unknown"

dirs ==
  << "N", "NNE", "NE", "ENE", "E", "ESE", "SE", "SSE",
     "S", "SSW", "SW", "WSW", "W", "WNW", "NW", "NNW" >>

\* what `${x}` gives for an array element that does not exist
UndefinedText == "undefined"

degToCardinal_Floor(deg) ==
  LET idx == JsRem((JsRem(deg, 360 * Scale) * 10) \div (225 * Scale), 16)
  IN  IF idx \in 0..15 THEN dirs[idx + 1] ELSE UndefinedText

\* deg is in hundredths of a degree: (deg % 360) / 22.5 is
\* JsRem(deg, 360 * Scale) * 10 / (225 * Scale)
degToCardinal(deg) ==
  LET idx == JsRem(MathRound(JsRem(deg, 360 * Scale) * 10, 225 * Scale), 16)
  IN  IF idx \in 0..15 THEN dirs[idx + 1] ELSE UndefinedText

Digits == {"0", "1", "2", "3", "4", "5", "6", "7", "8", "9"}

\* new Date(s) for the timestamp shape the provider sends, YYYY-MM-DDTHH:MM
\* (no offset: local time, and the host's zone is UTC); anything else is an
\* Invalid Date
ValidTimeText(s) ==
  /\ Len(s) = 16
  /\ s[5] = "-" /\ s[8] = "-" /\ s[11] = "T" /\ s[14] = ":"
  /\ \A k \in (1..16) \ {5, 8, 11, 14} : s[k] \in Digits

\* Date.prototype.toISOString of new Date(s), for a valid s
toISOString(s) == s \o <<":", "0", "0", ".", "0", "0", "0", "Z">>

\* String.prototype.replace("T", " "): the first occurrence only
RECURSIVE replaceT(_)
replaceT(s) ==
  IF s = <<>> THEN <<>>
  ELSE IF Head(s) = "T" THEN <<" ">> \o Tail(s)
  ELSE <<Head(s)>> \o replaceT(Tail(s))

\* s.slice(0, -5)
sliceOffLast5(s) == IF Len(s) > 5 THEN SubSeq(s, 1, Len(s) - 5) ELSE <<>>

\* reportedTime.toISOString().replace("T", " ").slice(0, -5) + "Z"
formatReported(iso) == sliceOffLast5(replaceT(iso)) \o <<"Z">>

\* new Date(props.time) is an Invalid Date, so that toISOString throws a
\* RangeError
parseObservationThrows(props) ==
  IsString(props.time) /\ ~ValidTimeText(props.time.s)

\* Math.round(x) as a JavaScript number, x in hundredths
Rounded(x) == Num(MathRound(x, Scale) * Scale)

\* the text of an integer-valued number in a template literal
NumberText(v) == ToString(v.n \div Scale)

tempFOf_FromRounded(tempC) ==
  IF tempC.t = "number"
    THEN Num(MathRound(MathRound(tempC.n, Scale) * Scale * 18 + 32 * Scale * 10, Scale * 10) * Scale)
    ELSE Null

\* tempC !== null ? Math.round(tempC * 1.8 + 32) : null
tempFOf(tempC) ==
  IF tempC.t = "number"
    THEN Num(MathRound(tempC.n * 18 + 32 * Scale * 10, Scale * 10) * Scale)
    ELSE Null

\* the one-character string U+2014 (the module's text is ASCII)
EmDash == "[U+2014]"

conditionOf_Truthy(weather_code) ==
  IF IsNumber(weather_code) /\ Truthy(weather_code)
    THEN mapWeatherCode(weather_code.n)
    ELSE "Unknown"

\* typeof props.weather_code === "number" ? mapWeatherCode(...) : "Unknown"
conditionOf(weather_code) ==
  IF IsNumber(weather_code) THEN mapWeatherCode(weather_code.n) ELSE "Unknown"

windText_Truthy(windKph, windDir) ==
  IF Truthy(windKph) THEN NumberText(windKph) \o " km/h" \o windDir ELSE EmDash

\* windKph !== null ? `${windKph} km/h${windDir}` : the dash
windText(windKph, windDir) ==
  IF windKph.t # "null" THEN NumberText(windKph) \o " km/h" \o windDir ELSE EmDash

\* now: what new Date() reads, as its ISO text
parseObservation(props, location, now) ==
  LET tempC == IF IsNumber(props.temperature_2m) THEN props.temperature_2m ELSE Null
      tempF == tempFOf(tempC)
      condition == conditionOf(props.weather_code)
      humidity == IF IsNumber(props.relative_humidity_2m)
                    THEN Rounded(props.relative_humidity_2m.n)
                    ELSE Null
      wind == IF IsNumber(props.wind_speed_10m) THEN props.wind_speed_10m ELSE Null
      windKph == IF wind.t # "null" THEN Rounded(wind.n) ELSE Null
      windDirDeg == IF IsNumber(props.wind_direction_10m)
                      THEN props.wind_direction_10m
                      ELSE Null
      windDir == IF windDirDeg.t # "null"
                   THEN " " \o degToCardinal(windDirDeg.n)
                   ELSE ""
      reportedTime == IF IsString(props.time) THEN toISOString(props.time.s) ELSE now
  IN  [Location |-> location,
       Condition |-> condition,
       TemperatureC |-> IF tempC.t # "null" THEN Rounded(tempC.n) ELSE Null,
       TemperatureF |-> tempF,
       HumidityPercent |-> humidity,
       WindKph |-> windKph,
       Wind |-> windText(windKph, windDir),
       ReportedAtUtc |-> formatReported(reportedTime),
       Source |-> "open-meteo"]

locationNotFound_WrongText(normalized) ==
  [Location |-> Str(normalized),
   Error |-> "Could not retrieve current observations.",
   Source |-> "open-meteo"]

\* the first return of getCurrentWeatherAsync
locationNotFound(normalized) ==
  [Location |-> Str(normalized),
   Error |-> "Could not find this location. Try a city, address, or zip code.",
   Source |-> "open-meteo"]

observationsUnavailable_HostTag(canonical) ==
  [Location |-> Str(canonical),
   Error |-> "Could not retrieve current observations.",
   Source |-> "api.open-meteo.com"]

\* the second return of getCurrentWeatherAsync
observationsUnavailable(canonical) ==
  [Location |-> Str(canonical),
   Error |-> "Could not retrieve current observations.",
   Source |-> "open-meteo"]

getCurrentWeatherAsync_CallerName(normalized, coords, observation, now) ==
  IF ~coords.found THEN locationNotFound(normalized)
  ELSE IF ~observation.found THEN observationsUnavailable(coords.canonical)
  ELSE parseObservation(observation.props, Str(normalized), now)

\* what getCurrentWeatherAsync returns, from what its two awaits gave it
getCurrentWeatherAsync(normalized, coords, observation, now) ==
  IF ~coords.found THEN locationNotFound(normalized)
  ELSE IF ~observation.found THEN observationsUnavailable(coords.canonical)
  ELSE parseObservation(observation.props, Str(coords.canonical), now)

requestsAfterGeocode_Retry(coords) ==
  IF coords.found THEN <<"forecast">> ELSE <<"geocode">>

\* the requests getCurrentWeatherAsync sends once geocodeAsync has resolved
requestsAfterGeocode(coords) ==
  IF coords.found THEN <<"forecast">> ELSE <<>>

(***************************************************************************)
(* weatherMcpApp.ts                                                        *)
(***************************************************************************)
Unknown == <<"U", "n", "k", "n", "o", "w", "n">>

\* the value the catch block of getWeather returns
unableToFetch(location, message) ==
  [Location |-> Or(location, Str(Unknown)),
   Error |-> "Unable to fetch weather: " \o message,
   Source |-> "api.open-meteo.com"]

\* "TemperatureC" in result
IsWeatherResult(r) == "TemperatureC" \in DOMAIN r

IsWeatherError(r) == DOMAIN r = {"Location", "Error", "Source"}

\* no value: the handler has not returned
NoResult == [pending |-> TRUE]

(***************************************************************************)
(* The state.                                                              *)
(***************************************************************************)
VARIABLES
  pc,            \* per invocation of getWeather: where the handler is
  mcptoolargs,   \* context.triggerMetadata.mcptoolargs
  location,      \* the local of getWeather
  normalized,    \* the local of getCurrentWeatherAsync
  geoResponse,   \* what the geocoding API answered
  coords,        \* the local of getCurrentWeatherAsync
  obsResponse,   \* what the forecast API answered
  clock,         \* what new Date() read, when parseObservation read it
  calls,         \* the outbound requests issued, in order
  parses,        \* how many times parseObservation ran
  result,        \* the value the handler returned
  blobs,         \* the container "snippets": the blob of each snippet name
  snippet,       \* the last snippet tool invocation: its arguments, what the
                 \* handler did with its bindings, and what it returned
  lastSaved,     \* history: per snippet name, the content of the most recent
                 \* saveSnippet call that had a name and a content
  call           \* the last application of a pure function: [fn, arg, out]

weatherVars ==
  << pc, mcptoolargs, location, normalized, geoResponse, coords, obsResponse,
     clock, calls, parses, result >>

snippetVars == << blobs, snippet, lastSaved >>

(***************************************************************************)
(* The inputs of the weather tool.                                         *)
(***************************************************************************)
NoArgs == [present |-> FALSE, location |-> Undefined]

ToolArgs ==
  {NoArgs} \cup
  { [present |-> TRUE, location |-> v] :
      v \in {Str(<<" ", "a">>), Num(5 * Scale), OpaqueObject} }

NoResponse == [kind |-> "none"]

GeoFailure(kind) == [kind |-> kind, hasResults |-> FALSE, results |-> <<>>]

GeoData(results) == [kind |-> "json", hasResults |-> TRUE, results |-> results]

Match(name, admin1, country) ==
  [latitude |-> 47, longitude |-> -122, name |-> name, admin1 |-> admin1, country |-> country]

GeoResponses ==
  { GeoFailure("transport_error"), GeoFailure("bad_json"), GeoFailure("json"),
    GeoData(<<>>),
    GeoData(<<Match(Num(5 * Scale), Undefined, Undefined)>>),
    GeoData(<<Match(Undefined, Str(<<"a", " ">>), Str(<<>>))>>),
    GeoData(<<Match(Str(<<" ">>), Undefined, Undefined)>>) }

ObsFailure(kind) == [kind |-> kind, hasCurrent |-> FALSE, current |-> NoProps]

ObsData(props) == [kind |-> "json", hasCurrent |-> TRUE, current |-> props]

TimeText == <<"2", "0", "2", "4", "-", "0", "1", "-", "0", "1", "T", "1", "2", ":", "0", "0">>

FullProps ==
  [temperature_2m |-> Num(2040), relative_humidity_2m |-> Num(5550),
   wind_speed_10m |-> Num(1230), wind_direction_10m |-> Num(190 * Scale),
   weather_code |-> Num(61 * Scale), time |-> Str(TimeText)]

ObsResponses ==
  { ObsFailure("transport_error"), ObsFailure("bad_json"), ObsFailure("json"),
    ObsData(NoProps), ObsData(FullProps),
    ObsData([NoProps EXCEPT !.time = Str(<<"a">>)]) }

NotRead == <<>>

Clock ==
  { <<"2", "0", "2", "6", "-", "1", "1", "-", "0", "2", "T", "0", "8", ":", "1", "5",
      ":", "3", "0", ".", "1", "2", "3", "Z">> }

(***************************************************************************)
(* getWeather, in the steps its awaits cut it into.                        *)
(***************************************************************************)
WeatherInit ==
  /\ pc = [i \in Invocations |-> "idle"]
  /\ mcptoolargs = [i \in Invocations |-> NoArgs]
  /\ location = [i \in Invocations |-> Undefined]
  /\ normalized = [i \in Invocations |-> <<>>]
  /\ geoResponse = [i \in Invocations |-> NoResponse]
  /\ coords = [i \in Invocations |-> NoCoords]
  /\ obsResponse = [i \in Invocations |-> NoResponse]
  /\ clock = [i \in Invocations |-> NotRead]
  /\ calls = [i \in Invocations |-> <<>>]
  /\ parses = [i \in Invocations |-> 0]
  /\ result = [i \in Invocations |-> NoResult]

\* the catch block of getWeather: the template literal of context.error
\* converts location to a string, which throws for an object that cannot be
\* converted, and then the handler rejects
Catch(i, loc, message) ==
  IF ToStringThrows(loc)
    THEN /\ pc' = [pc EXCEPT ![i] = "faulted"]
         /\ UNCHANGED result
    ELSE /\ pc' = [pc EXCEPT ![i] = "done"]
         /\ result' = [result EXCEPT ![i] = unableToFetch(loc, message)]

Return(i, value) ==
  /\ pc' = [pc EXCEPT ![i] = "done"]
  /\ result' = [result EXCEPT ![i] = value]

\* the handler up to its first await: the arguments, normalizeLocation and
\* the request geocodeAsync sends
GetWeather(i) ==
  /\ pc[i] = "idle"
  /\ \E a \in ToolArgs :
       /\ mcptoolargs' = [mcptoolargs EXCEPT ![i] = a]
       /\ location' = [location EXCEPT ![i] =
            IF a.present THEN Coalesce(a.location, Str(<<>>)) ELSE Str(<<>>)]
  /\ IF normalizeLocationThrows(location'[i])
       THEN /\ Catch(i, location'[i], "location.trim is not a function")
            /\ UNCHANGED << normalized, calls >>
       ELSE /\ normalized' = [normalized EXCEPT ![i] = normalizeLocation(location'[i])]
            /\ calls' = [calls EXCEPT ![i] = Append(@, "geocode")]
            /\ pc' = [pc EXCEPT ![i] = "geocoding"]
            /\ UNCHANGED result
  /\ UNCHANGED << geoResponse, coords, obsResponse, clock, parses >>
  /\ UNCHANGED << snippetVars, call >>

\* GeocodeReturns with normalized kept in a variable of the module, which
\* every invocation in flight writes and reads
GeocodeReturns_SharedLocal(i) ==
  /\ pc[i] = "geocoding"
  /\ \E r \in GeoResponses : geoResponse' = [geoResponse EXCEPT ![i] = r]
  /\ \E j \in Invocations :
       /\ pc[j] # "idle"
       /\ coords' = [coords EXCEPT ![i] = geocodeAsync(normalized[j], geoResponse'[i])]
       /\ calls' = [calls EXCEPT ![i] = @ \o requestsAfterGeocode(coords'[i])]
       /\ IF ~coords'[i].found
            THEN Return(i, getCurrentWeatherAsync(normalized[j], coords'[i],
                                                  NoObservation, NotRead))
            ELSE /\ pc' = [pc EXCEPT ![i] = "fetching"]
                 /\ UNCHANGED result
  /\ UNCHANGED << mcptoolargs, location, normalized, obsResponse, clock, parses >>
  /\ UNCHANGED << snippetVars, call >>

\* the geocoding response arrives: the rest of geocodeAsync, then
\* getCurrentWeatherAsync up to the request getLatestObservationAsync sends
GeocodeReturns(i) ==
  /\ pc[i] = "geocoding"
  /\ \E r \in GeoResponses : geoResponse' = [geoResponse EXCEPT ![i] = r]
  /\ coords' = [coords EXCEPT ![i] = geocodeAsync(normalized[i], geoResponse'[i])]
  /\ calls' = [calls EXCEPT ![i] = @ \o requestsAfterGeocode(coords'[i])]
  /\ IF ~coords'[i].found
       THEN Return(i, getCurrentWeatherAsync(normalized[i], coords'[i], NoObservation, NotRead))
       ELSE /\ pc' = [pc EXCEPT ![i] = "fetching"]
            /\ UNCHANGED result
  /\ UNCHANGED << mcptoolargs, location, normalized, obsResponse, clock, parses >>
  /\ UNCHANGED << snippetVars, call >>

\* the forecast response arrives: the rest of getLatestObservationAsync, then
\* getCurrentWeatherAsync to its end and getWeather to its return
ObservationReturns(i) ==
  /\ pc[i] = "fetching"
  /\ \E r \in ObsResponses : obsResponse' = [obsResponse EXCEPT ![i] = r]
  /\ LET observation == getLatestObservationAsync(coords[i].lat, coords[i].lon, obsResponse'[i])
     IN  IF ~observation.found
           THEN /\ Return(i, getCurrentWeatherAsync(normalized[i], coords[i],
                                                     observation, NotRead))
                /\ UNCHANGED << clock, parses >>
           ELSE /\ parses' = [parses EXCEPT ![i] = @ + 1]
                /\ \E now \in Clock :
                     clock' = [clock EXCEPT ![i] =
                       IF IsString(observation.props.time) THEN @ ELSE now]
                /\ IF parseObservationThrows(observation.props)
                     THEN Catch(i, location[i], "Invalid time value")
                     ELSE Return(i, getCurrentWeatherAsync(normalized[i], coords[i],
                                                           observation, clock'[i]))
  /\ UNCHANGED << mcptoolargs, location, normalized, geoResponse, coords, calls >>
  /\ UNCHANGED << snippetVars, call >>


(***************************************************************************)
(* snippetsMcpTool.ts.  A string argument or a blob is [present, text].    *)
(***************************************************************************)

Absent == [present |-> FALSE, text |-> ""]
Text(text) == [present |-> TRUE, text |-> text]

\* !x for a string that may be undefined
Falsy(x) == ~x.present \/ x.text = ""

SnippetNames == {"alpha", "beta"}
SnippetTexts == {"x = 1", "y = 2"}

SnippetNameArgs == {Absent, Text("")} \cup {Text(n) : n \in SnippetNames}
SnippetArgs == {Absent, Text("")} \cup {Text(c) : c \in SnippetTexts}

blobInput_FixedPath(name) == blobs["alpha"]

\* context.extraInputs.get(blobInputBinding): the blob at
\* snippets/{mcptoolargs.snippetname}.json, undefined when there is none
blobInput(name) == blobs[name]

\* how many times getSnippet calls context.extraInputs.get
getSnippetReads(snippetName) == IF Falsy(snippetName) THEN 0 ELSE 1

\* what getSnippet returns
getSnippetReturn(snippetName) ==
  IF Falsy(snippetName) THEN "No snippet name provided"
  ELSE IF Falsy(blobInput(snippetName.text))
    THEN "Snippet '" \o snippetName.text \o "' not found"
    ELSE blobInput(snippetName.text).text

saveSnippetSets_Unchecked(snippetName, content) == ~Falsy(snippetName)

\* whether saveSnippet reaches context.extraOutputs.set
saveSnippetSets(snippetName, content) == ~Falsy(snippetName) /\ ~Falsy(content)

\* what saveSnippet returns
saveSnippetReturn(snippetName, content) ==
  IF Falsy(snippetName) THEN "No snippet name provided"
  ELSE IF Falsy(content) THEN "No snippet content provided"
  ELSE content.text

NoSnippetCall ==
  [tool |-> "none", snippetname |-> Absent, snippet |-> Absent, reads |-> 0,
   outputSet |-> FALSE, before |-> [n \in SnippetNames |-> Absent], returned |-> ""]

SnippetInit ==
  /\ blobs = [n \in SnippetNames |-> Absent]
  /\ snippet = NoSnippetCall
  /\ lastSaved = [n \in SnippetNames |-> Absent]

GetSnippet ==
  \E snippetName \in SnippetNameArgs :
    /\ snippet' = [tool |-> "getSnippet", snippetname |-> snippetName, snippet |-> Absent,
                   reads |-> getSnippetReads(snippetName),
                   outputSet |-> FALSE, before |-> blobs,
                   returned |-> getSnippetReturn(snippetName)]
    /\ UNCHANGED << blobs, lastSaved, weatherVars, call >>

\* the handler, and the host writing the output binding's value to
\* snippets/{mcptoolargs.snippetname}.json once the handler has returned
SaveSnippet ==
  \E snippetName \in SnippetNameArgs, content \in SnippetArgs :
    /\ snippet' = [tool |-> "saveSnippet", snippetname |-> snippetName, snippet |-> content,
                   reads |-> 0,
                   outputSet |-> saveSnippetSets(snippetName, content),
                   before |-> blobs,
                   returned |-> saveSnippetReturn(snippetName, content)]
    /\ blobs' = IF saveSnippetSets(snippetName, content)
                  THEN [blobs EXCEPT ![snippetName.text] = content]
                  ELSE blobs
    /\ lastSaved' = IF /\ snippetName.present /\ snippetName.text # ""
                        /\ content.present /\ content.text # ""
                      THEN [lastSaved EXCEPT ![snippetName.text] = content]
                      ELSE lastSaved
    /\ UNCHANGED << weatherVars, call >>

(***************************************************************************)
(* The pure functions of weatherService.ts, applied to inputs of their own. *)
(***************************************************************************)
NoCall == [fn |-> "none"]

RECURSIVE StringsUpTo(_)
StringsUpTo(n) ==
  IF n = 0 THEN {<<>>}
  ELSE LET shorter == StringsUpTo(n - 1)
       IN  shorter \cup {<<c>> \o s : c \in Chars, s \in {t \in shorter : Len(t) = n - 1}}

LocationInputs == {Undefined} \cup {Str(s) : s \in StringsUpTo(MaxLen)}

CodeInputs == {c * Scale : c \in (-1)..MaxCode} \cup {50, 61 * Scale + 50}

\* quarters of a degree
DegInputs == {25 * q : q \in (-4 * MaxDeg)..(4 * MaxDeg)}

NotNumbers == {Undefined, Null, Str(<<"6", "1">>)}

TempInputs == {Num(n) : n \in (-MaxTemp * Scale)..(MaxTemp * Scale)} \cup NotNumbers

PropsInputs ==
  {[NoProps EXCEPT !.temperature_2m = t] : t \in TempInputs}
    \cup {[NoProps EXCEPT !.weather_code = c] : c \in {Num(n) : n \in CodeInputs} \cup NotNumbers}
    \cup {[FullProps EXCEPT !.wind_speed_10m = w, !.wind_direction_10m = d] :
            w \in {Num(1230), Num(50), Num(0)} \cup NotNumbers,
            d \in {Num(0), Num(190 * Scale), Num(360 * Scale)} \cup NotNumbers}

PlaceName == Str(<<"a", ",", " ", "a">>)

PureInit == call = NoCall

NormalizeLocation ==
  /\ call = NoCall
  /\ \E v \in LocationInputs :
       call' = [fn |-> "normalizeLocation", arg |-> v, out |-> normalizeLocation(v)]
  /\ UNCHANGED << weatherVars, snippetVars >>

MapWeatherCode ==
  /\ call = NoCall
  /\ \E code \in CodeInputs :
       call' = [fn |-> "mapWeatherCode", arg |-> code, out |-> mapWeatherCode(code)]
  /\ UNCHANGED << weatherVars, snippetVars >>

DegToCardinal ==
  /\ call = NoCall
  /\ \E deg \in DegInputs :
       call' = [fn |-> "degToCardinal", arg |-> deg, out |-> degToCardinal(deg)]
  /\ UNCHANGED << weatherVars, snippetVars >>

ParseObservation ==
  /\ call = NoCall
  /\ \E props \in PropsInputs, now \in Clock :
       call' = [fn |-> "parseObservation", arg |-> props,
                out |-> parseObservation(props, PlaceName, now)]
  /\ UNCHANGED << weatherVars, snippetVars >>

(***************************************************************************)
(* The specifications.                                                     *)
(***************************************************************************)
vars == << weatherVars, snippetVars, call >>

Init == WeatherInit /\ SnippetInit /\ PureInit

\* the weather tool, its invocations interleaved at their awaits
Next ==
  \E i \in Invocations : GetWeather(i) \/ GeocodeReturns(i) \/ ObservationReturns(i)

Spec == Init /\ [][Next]_vars

\* the snippet tools over the blob container
SnippetsNext == GetSnippet \/ SaveSnippet

SnippetsSpec == Init /\ [][SnippetsNext]_vars

\* the pure functions, each applied once to an input of its bounded set
FunctionsNext == NormalizeLocation \/ MapWeatherCode \/ DegToCardinal \/ ParseObservation

FunctionsSpec == Init /\ [][FunctionsNext]_vars

(***************************************************************************)
(* The claims.                                                             *)
(***************************************************************************)

\* the geocoding API's answer holds no first match, or never arrived whole
GeocodeUnanswered(r) ==
  \/ r.kind \in {"transport_error", "bad_json"}
  \/ r.kind = "json" /\ (~r.hasResults \/ r.results = <<>>)

\* the forecast API's answer holds no "current" section, or never arrived whole
ForecastUnanswered(r) ==
  \/ r.kind \in {"transport_error", "bad_json"}
  \/ r.kind = "json" /\ ~r.hasCurrent

NotFoundText == "Could not find this location. Try a city, address, or zip code."

NoObservationsText == "Could not retrieve current observations."

\* C1: whenever the geocoding step of an invocation yields no result (no
\* match, transport failure or parse failure), the invocation returns a
\* WeatherError with the fixed not-found text and the normalized input as its
\* Location, never a WeatherResult, and it sent no forecast request.
C1_GeocodeFailure ==
  \A i \in Invocations :
    (geoResponse[i].kind # "none" /\ (GeocodeUnanswered(geoResponse[i]) \/ ~coords[i].found))
      => /\ pc[i] = "done"
         /\ IsWeatherError(result[i])
         /\ ~IsWeatherResult(result[i])
         /\ result[i].Error = NotFoundText
         /\ result[i].Location = Str(normalized[i])
         /\ calls[i] = <<"geocode">>
         /\ obsResponse[i] = NoResponse

C1_Witness ==
  /\ geoResponse[1].kind = "transport_error"
  /\ geoResponse[2] = GeoData(<<>>)
  /\ mcptoolargs[2].present
  /\ \A i \in {1, 2} : pc[i] = "done" /\ result[i].Error = NotFoundText
  /\ result[1].Location = Str(SeattleWA)
  /\ result[2].Location = Str(<<"a">>)

\* C2: whenever geocoding succeeded and the forecast fetch yields nothing, the
\* invocation returns a WeatherError whose Location is the geocoder's
\* canonical name and whose Error is the fixed no-observations text, and the
\* parser did not run.
C2_FetchFailure ==
  \A i \in Invocations :
    (coords[i].found /\ obsResponse[i].kind # "none" /\ ForecastUnanswered(obsResponse[i]))
      => /\ pc[i] = "done"
         /\ IsWeatherError(result[i])
         /\ result[i].Location = Str(coords[i].canonical)
         /\ result[i].Error = NoObservationsText
         /\ parses[i] = 0

C2_Witness ==
  \E i \in Invocations :
    /\ pc[i] = "done"
    /\ obsResponse[i] = ObsFailure("json")
    /\ coords[i].canonical = <<"a", ",", " ", "a", " ">>
    /\ normalized[i] = <<"a">>
    /\ result[i].Location = Str(<<"a", ",", " ", "a", " ">>)
    /\ result[i].Error = NoObservationsText

\* C3: whenever geocoding succeeded with canonical name c and the fetch
\* succeeded with raw observation o, the returned value is
\* parseObservation(o, c) with nothing added, dropped or rewritten, and its
\* Location is c, not the caller's input.
C3_ResultIsParsed ==
  \A i \in Invocations :
    (/\ pc[i] = "done"
     /\ coords[i].found
     /\ obsResponse[i].kind = "json"
     /\ obsResponse[i].hasCurrent
     /\ ~parseObservationThrows(obsResponse[i].current))
      => /\ result[i] = parseObservation(obsResponse[i].current,
                                         Str(coords[i].canonical), clock[i])
         /\ result[i].Location = Str(coords[i].canonical)
         /\ parses[i] = 1

C3_Witness ==
  \E i \in Invocations :
    /\ pc[i] = "done"
    /\ obsResponse[i] = ObsData(FullProps)
    /\ normalized[i] = <<"a">>
    /\ IsWeatherResult(result[i])
    /\ result[i].Location = Str(<<"a", ",", " ", "a", " ">>)
    /\ result[i].Condition = "Rain"

\* C4: no exception escapes getWeather: every invocation that ends, ends by
\* returning a WeatherResult or a WeatherError, never in an unhandled fault.
C4_NoFaultEscapes ==
  \A i \in Invocations :
    /\ pc[i] # "faulted"
    /\ pc[i] = "done" => IsWeatherResult(result[i]) \/ IsWeatherError(result[i])

\* C5: an invocation sends at most two requests, the geocode request and then
\* the forecast request, the second only once the first was answered with a
\* match; neither is sent twice, and the first request that fails ends the
\* invocation with a WeatherError.
C5_TwoCallsNoRetry ==
  \A i \in Invocations :
    /\ calls[i] \in {<<>>, <<"geocode">>, <<"geocode", "forecast">>}
    /\ Len(calls[i]) = 2 => geoResponse[i].kind = "json" /\ geoResponse[i].results # <<>>
    /\ (geoResponse[i].kind \in {"transport_error", "bad_json"})
         => pc[i] = "done" /\ IsWeatherError(result[i]) /\ calls[i] = <<"geocode">>
    /\ (obsResponse[i].kind \in {"transport_error", "bad_json"})
         => pc[i] = "done" /\ IsWeatherError(result[i]) /\ calls[i] = <<"geocode", "forecast">>
    /\ pc[i] = "geocoding" => calls[i] = <<"geocode">> /\ geoResponse[i] = NoResponse
    /\ pc[i] = "fetching" => calls[i] = <<"geocode", "forecast">> /\ obsResponse[i] = NoResponse

C5_Witness ==
  /\ pc[1] = "done" /\ calls[1] = <<"geocode", "forecast">>
  /\ obsResponse[1].kind = "transport_error" /\ IsWeatherError(result[1])
  /\ pc[2] = "done" /\ calls[2] = <<"geocode">>
  /\ geoResponse[2].kind = "bad_json" /\ IsWeatherError(result[2])

\* s without its leading and trailing whitespace: from its first character
\* that is not whitespace to its last
Stripped(s) ==
  LET solid == {k \in 1..Len(s) : s[k] \notin WhiteSpace}
  IN  IF solid = {} THEN <<>>
      ELSE SubSeq(s, CHOOSE k \in solid : \A j \in solid : k <= j,
                     CHOOSE k \in solid : \A j \in solid : k >= j)

\* C6: normalizeLocation returns "Seattle, WA" for an input that is
\* undefined, empty or whitespace-only, and every other input with its leading
\* and trailing whitespace removed; the result is never empty, and normalizing
\* it again returns it unchanged.
C6_Normalize ==
  call.fn = "normalizeLocation" =>
    /\ (call.arg = Undefined \/ \A k \in 1..Len(call.arg.s) : call.arg.s[k] \in WhiteSpace)
         => call.out = SeattleWA
    /\ (call.arg # Undefined /\ \E k \in 1..Len(call.arg.s) : call.arg.s[k] \notin WhiteSpace)
         => call.out = Stripped(call.arg.s)
    /\ call.out # <<>>
    /\ normalizeLocation(Str(call.out)) = call.out

C6_Witness ==
  /\ call.fn = "normalizeLocation"
  /\ call.arg = Str(<<"\t", "a", " ", "a">>) \/ call.arg = Str(<<" ", "a", "a", "\t">>)
  /\ call.out \in {<<"a", " ", "a">>, <<"a", "a">>}

\* C7: a snippet tool called without a required argument returns its fixed
\* message and touches no storage: getSnippet without a name does not read
\* the blob, saveSnippet without a name or without content does not set the
\* blob output, and the stored snippets are as they were.
C7_MissingArgument ==
  /\ (snippet.tool = "getSnippet" /\ Falsy(snippet.snippetname))
       => /\ snippet.returned = "No snippet name provided"
          /\ snippet.reads = 0
          /\ blobs = snippet.before
  /\ (snippet.tool = "saveSnippet" /\ Falsy(snippet.snippetname))
       => /\ snippet.returned = "No snippet name provided"
          /\ ~snippet.outputSet
          /\ blobs = snippet.before
  /\ (snippet.tool = "saveSnippet" /\ ~Falsy(snippet.snippetname) /\ Falsy(snippet.snippet))
       => /\ snippet.returned = "No snippet content provided"
          /\ ~snippet.outputSet
          /\ blobs = snippet.before

C7_Witness ==
  /\ snippet.tool = "saveSnippet"
  /\ snippet.snippetname = Text("alpha")
  /\ snippet.snippet = Text("")
  /\ snippet.returned = "No snippet content provided"
  /\ blobs["alpha"] = Text("x = 1")

\* the table of conditions, by weather code
ConditionTable ==
  << <<{0}, "Clear sky">>, <<{1}, "Mainly clear">>, <<{2}, "Partly cloudy">>,
     <<{3}, "Overcast">>, <<{45, 48}, "Fog">>, <<{51, 53, 55}, "Drizzle">>,
     <<{56, 57}, "Freezing drizzle">>, <<{61, 63, 65}, "Rain">>,
     <<{66, 67}, "Freezing rain">>, <<{71, 73, 75}, "Snowfall">>,
     <<{77}, "Snow grains">>, <<{80, 81, 82}, "Rain showers">>,
     <<{85, 86}, "Snow showers">>, <<{95}, "Thunderstorm">>,
     <<{96, 99}, "Thunderstorm with hail">> >>

\* the table's text for a number n (in hundredths): "Unknown" off the table
TableCondition(n) ==
  LET rows == {r \in 1..Len(ConditionTable) :
                 \E c \in ConditionTable[r][1] : n = c * Scale}
  IN  IF rows = {} THEN "Unknown" ELSE ConditionTable[CHOOSE r \in rows : TRUE][2]

\* C8: the condition text is the table's entry for the weather code, for
\* every integer code, and "Unknown" for every other code and for a code that
\* is absent or no number.
C8_ConditionTable ==
  /\ call.fn = "mapWeatherCode" => call.out = TableCondition(call.arg)
  /\ call.fn = "parseObservation" =>
       call.out.Condition =
         IF call.arg.weather_code.t = "number"
           THEN TableCondition(call.arg.weather_code.n)
           ELSE "Unknown"

C8_Witness ==
  /\ call.fn = "parseObservation"
  /\ call.arg.weather_code = Num(0)
  /\ call.out.Condition = "Clear sky"

\* the integer nearest to num / den, a tie going up
Nearest(num, den) ==
  CHOOSE k \in (-4 * 360)..(4 * 360) :
    2 * den * k <= 2 * num + den /\ 2 * num + den < 2 * den * (k + 1)

Compass16 ==
  [k \in 0..15 |->
     CASE k = 0 -> "N" [] k = 1 -> "NNE" [] k = 2 -> "NE" [] k = 3 -> "ENE"
       [] k = 4 -> "E" [] k = 5 -> "ESE" [] k = 6 -> "SE" [] k = 7 -> "SSE"
       [] k = 8 -> "S" [] k = 9 -> "SSW" [] k = 10 -> "SW" [] k = 11 -> "WSW"
       [] k = 12 -> "W" [] k = 13 -> "WNW" [] k = 14 -> "NW" [] k = 15 -> "NNW"]

\* C9: for a wind direction of 0 to 360 degrees, degToCardinal gives the
\* compass abbreviation at index round(deg / 22.5) mod 16, never undefined;
\* 0 and 360 give "N" and 190 gives "S".
C9_Cardinal ==
  (call.fn = "degToCardinal" /\ call.arg >= 0 /\ call.arg <= 360 * Scale) =>
    /\ call.out = Compass16[Nearest(call.arg * 10, 225 * Scale) % 16]
    /\ call.out # UndefinedText
    /\ call.arg = 0 => call.out = "N"
    /\ call.arg = 360 * Scale => call.out = "N"
    /\ call.arg = 190 * Scale => call.out = "S"

C9_Witness ==
  /\ call.fn = "degToCardinal"
  /\ call.arg = 360 * Scale
  /\ call.out = "N"

\* C10: TemperatureF is present exactly when the raw temperature is a number,
\* and is then round(raw * 1.8 + 32) of the unrounded raw value, while
\* TemperatureC is round(raw); raw 20.4 gives 69 (not the 68 of the rounded
\* 20) and raw 20.0 gives 68.
C10_Fahrenheit ==
  call.fn = "parseObservation" =>
    LET raw == call.arg.temperature_2m
    IN  /\ (call.out.TemperatureF # Null) <=> raw.t = "number"
        /\ raw.t = "number" =>
             /\ call.out.TemperatureF = Num(Nearest(raw.n * 18 + 32000, 1000) * Scale)
             /\ call.out.TemperatureC = Num(Nearest(raw.n, 100) * Scale)
        /\ raw = Num(2040) => call.out.TemperatureF = Num(69 * Scale)
        /\ raw = Num(2000) => call.out.TemperatureF = Num(68 * Scale)

C10_Witness ==
  /\ call.fn = "parseObservation"
  /\ call.arg.temperature_2m = Num(2040)
  /\ call.out.TemperatureC = Num(20 * Scale)
  /\ call.out.TemperatureF = Num(69 * Scale)

\* C11: Wind is "<WindKph> km/h <direction>" when the raw wind speed and the
\* raw direction (0 to 360 degrees) are numbers, "<WindKph> km/h" when only
\* the speed is a number, and the dash whenever the speed is no number,
\* whatever the direction; with every raw field absent TemperatureC,
\* TemperatureF, HumidityPercent and WindKph are absent and Wind is the dash.
C11_WindText ==
  call.fn = "parseObservation" =>
    LET speed == call.arg.wind_speed_10m
        dir == call.arg.wind_direction_10m
        kph == ToString(Nearest(speed.n, Scale))
    IN  /\ (speed.t = "number" /\ dir.t = "number" /\ dir.n >= 0 /\ dir.n <= 360 * Scale)
             => /\ call.out.WindKph = Num(Nearest(speed.n, Scale) * Scale)
                /\ call.out.Wind =
                     kph \o " km/h " \o Compass16[Nearest(dir.n * 10, 225 * Scale) % 16]
        /\ (speed.t = "number" /\ dir.t # "number")
             => call.out.Wind = kph \o " km/h"
        /\ speed.t # "number" => call.out.Wind = EmDash /\ call.out.WindKph = Null
        /\ call.arg = NoProps
             => /\ call.out.TemperatureC = Null
                /\ call.out.TemperatureF = Null
                /\ call.out.HumidityPercent = Null
                /\ call.out.WindKph = Null
                /\ call.out.Wind = EmDash

C11_Witness ==
  /\ call.fn = "parseObservation"
  /\ call.arg.wind_speed_10m = Num(0)
  /\ call.arg.wind_direction_10m = Num(190 * Scale)
  /\ call.out.Wind = "0 km/h S"

\* how an invocation run on its own ends, and with what value, given its
\* arguments, the two answers it was given and the time it read
RunAlone(args, geo, obs, now) ==
  LET loc == IF args.present /\ args.location # Undefined THEN args.location ELSE Str(<<>>)
      caught(message) ==
        IF ToStringThrows(loc)
          THEN [pc |-> "faulted", result |-> NoResult]
          ELSE [pc |-> "done", result |-> unableToFetch(loc, message)]
  IN  IF normalizeLocationThrows(loc) THEN caught("location.trim is not a function")
      ELSE LET place == geocodeAsync(normalizeLocation(loc), geo)
           IN  IF ~place.found
                 THEN [pc |-> "done", result |-> locationNotFound(normalizeLocation(loc))]
               ELSE LET observation == getLatestObservationAsync(place.lat, place.lon, obs)
                    IN  IF ~observation.found
                          THEN [pc |-> "done",
                                result |-> observationsUnavailable(place.canonical)]
                        ELSE IF parseObservationThrows(observation.props)
                          THEN caught("Invalid time value")
                        ELSE [pc |-> "done",
                              result |-> parseObservation(observation.props,
                                                          Str(place.canonical), now)]

\* C12: invocations dispatched concurrently are independent: however their
\* steps interleave, each invocation that has ended has ended the way, and
\* with the value, it would have run alone on the same arguments and the same
\* answers of the two APIs.
C12_Independent ==
  \A i \in Invocations :
    pc[i] \in {"done", "faulted"} =>
      [pc |-> pc[i], result |-> result[i]]
        = RunAlone(mcptoolargs[i], geoResponse[i], obsResponse[i], clock[i])

C12_Witness ==
  /\ pc[1] = "done" /\ pc[2] = "done"
  /\ mcptoolargs[1] = NoArgs /\ mcptoolargs[2].location = Str(<<" ", "a">>)
  /\ IsWeatherResult(result[1]) /\ result[1].Location = Str(SeattleWA)
  /\ result[2].Error = NotFoundText /\ result[2].Location = Str(<<"a">>)

\* the invocation ended in the catch block of getWeather: normalizeLocation
\* threw on its location, or the parser threw on the observation it was given
UnexpectedFailure(i) ==
  \/ /\ location[i].t = "object" \/ (location[i].t = "number" /\ location[i].n # 0)
     /\ geoResponse[i] = NoResponse
  \/ /\ obsResponse[i].kind = "json"
     /\ obsResponse[i].hasCurrent
     /\ obsResponse[i].current.time.t = "string"
     /\ ~ValidTimeText(obsResponse[i].current.time.s)

\* C13 as stated: every value getWeather returns, on whichever path, carries
\* the Source tag "open-meteo".
C13_SameSourceTag ==
  \A i \in Invocations : pc[i] = "done" => result[i].Source = "open-meteo"

\* C13, amended: every value getWeather returns on the success, location not
\* found and observations unavailable paths carries the Source tag
\* "open-meteo"; the WeatherError of the unexpected failure path carries
\* "api.open-meteo.com".
C13_SourceTagByPath ==
  \A i \in Invocations :
    pc[i] = "done" =>
      result[i].Source =
        IF UnexpectedFailure(i) THEN "api.open-meteo.com" ELSE "open-meteo"

C13_Witness ==
  /\ pc[1] = "done" /\ pc[2] = "done"
  /\ IsWeatherResult(result[1]) /\ result[1].Source = "open-meteo"
  /\ obsResponse[2].kind = "json" /\ obsResponse[2].current.time = Str(<<"a">>)
  /\ IsWeatherError(result[2]) /\ result[2].Source = "api.open-meteo.com"

NotFoundMessage(name) == "Snippet '" \o name \o "' not found"

\* C14: over a blob container that starts empty, after any sequence of
\* saveSnippet and getSnippet calls, getSnippet(name) returns the content of
\* the most recent saveSnippet(name, content) that had both arguments, and
\* "Snippet '<name>' not found" when there was none; no stored blob is empty,
\* so a saved snippet is never reported as not found; and a save under one
\* name leaves the blob of every other name as it was.
C14_SaveThenGet ==
  /\ (snippet.tool = "getSnippet" /\ snippet.snippetname.present /\ snippet.snippetname.text # "")
       => LET name == snippet.snippetname.text
          IN  /\ lastSaved[name].present => snippet.returned = lastSaved[name].text
              /\ ~lastSaved[name].present => snippet.returned = NotFoundMessage(name)
              /\ lastSaved[name].present => snippet.returned # NotFoundMessage(name)
  /\ \A n \in SnippetNames : blobs[n].present => blobs[n].text # ""
  /\ snippet.tool = "saveSnippet" =>
       \A n \in SnippetNames :
         n # snippet.snippetname.text => blobs[n] = snippet.before[n]

C14_Witness ==
  /\ snippet.tool = "getSnippet"
  /\ snippet.snippetname = Text("beta")
  /\ snippet.returned = "y = 2"
  /\ blobs["alpha"] = Text("x = 1")
  /\ lastSaved["beta"] = Text("y = 2")

====
